---- MODULE Spec2Model ----
(***************************************************************************)
(* NOAA -> Influx line protocol -> Grafana Cloud worker (src/src/index.js). *)
(* The module models the incremental-sync pipeline of run(): the KV state  *)
(* record, the three feed fetches, sliceNew / normalizePoints / line, the  *)
(* push to the sink and the commit of the proposed state.                  *)
(*                                                                         *)
(* JavaScript values are modelled as follows.                              *)
(*   - "null" (and undefined where the code folds it with ??) of a         *)
(*     millisecond value is the empty tuple <<>>, a present value n is     *)
(*     the tuple <<n>>.                                                    *)
(*   - a JS number is a record [k, v] with k in {"fin","nan","inf"}.       *)
(*   - a raw time_tag is a record [kind, min, frac]; kind "iso" stands for *)
(*     the string "1970-01-01T00:MM:00Z" (frac = FALSE) or                 *)
(*     "1970-01-01T00:MM:00.000Z" (frac = TRUE) with MM = min; kind "text" *)
(*     is a string that is no date, "empty" is "", "undefined" is a row    *)
(*     without the key.                                                    *)
(*   - a raw scalar is a record [type, text] (JSON type and literal).      *)
(*   - a string that the code rewrites character by character (a tag       *)
(*     value) is a tuple of one-character strings.                         *)
(***************************************************************************)
EXTENDS Integers, Sequences, FiniteSets, TLC

\* ------------------------------------------------------------------ bounds
\* Total number of records the three feeds return to one run.
MaxRows == 2
\* Number of run invocations explored.
MaxRuns == 2
\* Length of the row sequences handed to sliceNew on its own.
MaxSliceRows == 3
\* Total number of records the three feeds return to an invocation that may
\* overlap another one.
MaxOverlapRows == 1

\* --------------------------------------------------------------- constants
OVERLAP_MS == 600000
MsPerMinute == 60000
NsPerMs == 1000000

None == <<>>
Some(n) == <<n>>

Series == {"k", "wind", "mag"}

\* ------------------------------------------------------- JS value helpers
Fin(n) == [k |-> "fin", v |-> n]
NaN == [k |-> "nan", v |-> 0]
Infinity == [k |-> "inf", v |-> 0]

\* Number.isFinite on a JS number.
NumberIsFinite(x) == x.k = "fin"

Tag(kind, min, frac) == [kind |-> kind, min |-> min, frac |-> frac]
IsoTag(min) == Tag("iso", min, FALSE)
IsoFracTag(min) == Tag("iso", min, TRUE)
TextTag == Tag("text", 0, FALSE)
EmptyTag == Tag("empty", 0, FALSE)
UndefinedTag == Tag("undefined", 0, FALSE)

\* Date.parse(String(t)): both ISO spellings of a minute give the same
\* instant; "undefined", "" and a non-date text give NaN.
DateParse(t) == IF t.kind = "iso" THEN Fin(t.min * MsPerMinute) ELSE NaN

\* JS truthiness of a time_tag value: undefined and "" are falsy.
TagTruthy(t) == t.kind \notin {"undefined", "empty"}

\* JS truthiness of a millisecond value or null: null and 0 are falsy.
MsTruthy(o) == o # None /\ o[1] # 0

toMs(t) ==
  LET ms == DateParse(t)
  IN IF NumberIsFinite(ms) THEN Some(ms.v) ELSE None

\* ---------------------------------------------------------- raw scalars
Raw(type, text) == [type |-> type, text |-> text]
Undefined == Raw("undefined", "")
Null == Raw("null", "")
Num(text) == Raw("number", text)
Str(text) == Raw("string", text)

\* String.prototype.trim on the modelled strings.
Trim(s) ==
  CASE s = " 7 " -> "7"
    [] s = " " -> ""
    [] OTHER -> s

\* String.prototype.toLowerCase on the modelled strings.
ToLowerCase(s) ==
  CASE s = "NaN" -> "nan"
    [] s = "NULL" -> "null"
    [] s = "Infinity" -> "infinity"
    [] OTHER -> s

\* Number(s) for a string s: "" is 0, "Infinity" is infinite, a decimal
\* literal is its value, anything else (also "infinity", "nan") is NaN.
NumberOfString(s) ==
  CASE s = "" -> Fin(0)
    [] s = "5" -> Fin(5)
    [] s = "7" -> Fin(7)
    [] s = "Infinity" -> Infinity
    [] OTHER -> NaN

\* The value of a JSON number literal; 1e999 overflows to Infinity.
NumberOfLiteral(s) ==
  CASE s = "5" -> Fin(5)
    [] s = "7" -> Fin(7)
    [] s = "0" -> Fin(0)
    [] s = "1e999" -> Infinity
    [] OTHER -> NaN

\* String(x) for a raw scalar that is neither null nor undefined.
StringOf(x) == x.text

\* isFiniteNumber without the test for "", "null" and "nan".
isFiniteNumberNoBlank(x) ==
  IF x.type \in {"null", "undefined"} THEN FALSE
  ELSE IF x.type = "number" THEN NumberIsFinite(NumberOfLiteral(x.text))
  ELSE NumberIsFinite(NumberOfString(ToLowerCase(Trim(StringOf(x)))))

isFiniteNumber(x) ==
  IF x.type \in {"null", "undefined"} THEN FALSE
  ELSE IF x.type = "number" THEN NumberIsFinite(NumberOfLiteral(x.text))
  ELSE LET s == ToLowerCase(Trim(StringOf(x)))
       IN IF s = "" \/ s = "null" \/ s = "nan" THEN FALSE
          ELSE NumberIsFinite(NumberOfString(s))

toNumber(x) ==
  IF x.type = "number" THEN NumberOfLiteral(x.text)
  ELSE NumberOfString(Trim(StringOf(x)))

\* ------------------------------------------------------------ field maps
\* Object.entries order of the maps: <<destKey, srcKey>>.
MAP_WIND ==
  << <<"speed_km_s", "proton_speed">>,
     <<"density_cm3", "proton_density">>,
     <<"temperature_k", "proton_temperature">> >>

MAP_MAG ==
  << <<"bx_gsm_nt", "bx_gsm">>,
     <<"by_gsm_nt", "by_gsm">>,
     <<"bz_gsm_nt", "bz_gsm">>,
     <<"bt_nt", "bt">> >>

\* The source keys a row of each feed may carry.
SrcKeys(s) ==
  CASE s = "k" -> {"kp", "kp_index"}
    [] s = "wind" -> {MAP_WIND[i][2] : i \in 1..Len(MAP_WIND)}
    [] s = "mag" -> {MAP_MAG[i][2] : i \in 1..Len(MAP_MAG)}

\* A raw row: its time_tag, its source tag value (a non-empty character
\* tuple, or <<>> standing for an absent key) and its scalar fields by
\* source key (Undefined for an absent key).
Row(t, src, f) == [time_tag |-> t, source |-> src, f |-> f]

\* row?.[key]
Get(row, key) == IF key \in DOMAIN row.f THEN row.f[key] ELSE Undefined

RECURSIVE PickLoop(_, _, _)
PickLoop(row, fieldMap, i) ==
  IF i > Len(fieldMap) THEN <<>>
  ELSE LET v == Get(row, fieldMap[i][2])
           rest == PickLoop(row, fieldMap, i + 1)
       IN IF isFiniteNumber(v) THEN << <<fieldMap[i][1], toNumber(v)>> >> \o rest
          ELSE rest

\* The object built by pickNumericFields, as its entries in insertion order.
pickNumericFields(row, fieldMap) == PickLoop(row, fieldMap, 1)

Unknown == <<"u", "n", "k", "n", "o", "w", "n">>
Noaa == <<"n", "o", "a", "a">>

\* r?.[k] ?? "unknown" for the tag key "source".
SourceTag(row) == IF row.source = <<>> THEN Unknown ELSE row.source

\* A canonical point { tms, ...tags, ...fields }: tags and fields as their
\* entries in insertion order.
Point(tms, tags, fields) == [tms |-> tms, tags |-> tags, fields |-> fields]

NormalizeRow(r, fieldMap) ==
  LET tms == toMs(r.time_tag)
      fields == pickNumericFields(r, fieldMap)
  IN IF ~MsTruthy(tms) THEN <<>>
     ELSE IF Len(fields) = 0 THEN <<>>
     ELSE << Point(tms[1], << <<"source", SourceTag(r)>> >>, fields) >>

RECURSIVE FlatMapNormalize(_, _, _)
FlatMapNormalize(rows, fieldMap, i) ==
  IF i > Len(rows) THEN <<>>
  ELSE NormalizeRow(rows[i], fieldMap) \o FlatMapNormalize(rows, fieldMap, i + 1)

\* normalizePoints(rows, { fieldMap, tagKeys: ["source"] })
normalizePoints(rows, fieldMap) == FlatMapNormalize(rows, fieldMap, 1)

\* The callback of kNewRaw.flatMap in run: kp, else kp_index, else dropped.
KpRow(r) ==
  LET tms == toMs(r.time_tag)
      kpVal == IF isFiniteNumber(Get(r, "kp")) THEN Some(toNumber(Get(r, "kp")))
               ELSE IF isFiniteNumber(Get(r, "kp_index"))
                    THEN Some(toNumber(Get(r, "kp_index")))
               ELSE None
  IN IF ~MsTruthy(tms) THEN <<>>
     ELSE IF kpVal = None THEN <<>>
     ELSE << Point(tms[1], <<>>, << <<"kp", kpVal[1]>> >>) >>

RECURSIVE FlatMapKp(_, _)
FlatMapKp(rows, i) ==
  IF i > Len(rows) THEN <<>>
  ELSE KpRow(rows[i]) \o FlatMapKp(rows, i + 1)

kPoints(kNewRaw) == FlatMapKp(kNewRaw, 1)

\* ------------------------------------------------------------- sliceNew
\* A fetched JSON value: an array of rows, or some other JSON value.
Json(isArray, rows) == [array |-> isArray, rows |-> rows]

\* Since without the overlap: the cutoff is the watermark itself.
SinceNoOverlap(lastTsMs, bootstrapSinceMs) ==
  IF MsTruthy(lastTsMs) THEN Some(lastTsMs[1]) ELSE bootstrapSinceMs

\* since = lastTsMs ? lastTsMs - OVERLAP_MS : (bootstrapSinceMs ?? null)
Since(lastTsMs, bootstrapSinceMs) ==
  IF MsTruthy(lastTsMs) THEN Some(lastTsMs[1] - OVERLAP_MS) ELSE bootstrapSinceMs

\* SeenKey on the parsed instant instead of the raw string.
SeenKeyParsed(r) == toMs(r.time_tag)

\* What the loop looks up in and adds to the set seen: the raw time_tag.
SeenKey(r) == r.time_tag

\* AtOrBeforeCutoff with a row at the cutoff itself let through.
BeforeCutoff(tms, since) == since # None /\ tms < since[1]

\* since !== null && tms <= since
AtOrBeforeCutoff(tms, since) == since # None /\ tms <= since[1]

\* tms of the loop body: t ? toMs(t) : null
LoopTms(r) == IF TagTruthy(r.time_tag) THEN toMs(r.time_tag) ELSE None

RECURSIVE SliceLoop(_, _, _, _, _)
SliceLoop(rows, since, i, seen, out) ==
  IF i > Len(rows) THEN out
  ELSE LET r == rows[i]
           t == SeenKey(r)
           tms == LoopTms(r)
       IN IF ~MsTruthy(tms) THEN SliceLoop(rows, since, i + 1, seen, out)
          ELSE IF AtOrBeforeCutoff(tms[1], since)
               THEN SliceLoop(rows, since, i + 1, seen, out)
          ELSE IF t \in seen THEN SliceLoop(rows, since, i + 1, seen, out)
          ELSE SliceLoop(rows, since, i + 1, seen \cup {t}, Append(out, r))

\* The key the comparator of out.sort subtracts: toMs(time_tag) ?? 0
SortKey(r) == LET m == toMs(r.time_tag) IN IF m = None THEN 0 ELSE m[1]

\* Insertion of r behind every element whose key is not larger (stable).
RECURSIVE InsertSorted(_, _)
InsertSorted(sorted, r) ==
  IF sorted = <<>> THEN <<r>>
  ELSE IF SortKey(sorted[Len(sorted)]) - SortKey(r) <= 0 THEN Append(sorted, r)
  ELSE Append(InsertSorted(SubSeq(sorted, 1, Len(sorted) - 1), r), sorted[Len(sorted)])

RECURSIVE SortLoop(_, _, _)
SortLoop(seq, i, acc) ==
  IF i > Len(seq) THEN acc
  ELSE SortLoop(seq, i + 1, InsertSorted(acc, seq[i]))

\* SortByTime left out: the rows stay in arrival order.
Unsorted(out) == out

\* Array.prototype.sort with the comparator of sliceNew; the sort is stable.
SortByTime(out) == SortLoop(out, 1, <<>>)

sliceNew(json, lastTsMs, bootstrapSinceMs) ==
  IF ~json.array THEN <<>>
  ELSE SortByTime(SliceLoop(json.rows, Since(lastTsMs, bootstrapSinceMs), 1, {}, <<>>))

RECURSIVE MaxOf(_)
MaxOf(S) ==
  LET x == CHOOSE y \in S : TRUE
  IN IF S = {x} THEN x
     ELSE LET m == MaxOf(S \ {x}) IN IF x > m THEN x ELSE m

latestTsMs(rows) ==
  LET tms == {toMs(rows[i].time_tag)[1] :
                i \in {j \in 1..Len(rows) : MsTruthy(toMs(rows[j].time_tag))}}
  IN IF Len(rows) = 0 THEN None
     ELSE IF tms # {} THEN Some(MaxOf(tms)) ELSE None

\* ----------------------------------------------------------- line protocol
RECURSIVE ReplaceAll(_, _, _)
ReplaceAll(s, ch, repl) ==
  IF s = <<>> THEN <<>>
  ELSE (IF s[1] = ch THEN repl ELSE <<s[1]>>) \o ReplaceAll(Tail(s), ch, repl)

escTag(v) ==
  ReplaceAll(ReplaceAll(ReplaceAll(ReplaceAll(v,
      "\\", <<"\\", "\\">>), ",", <<"\\", ",">>), " ", <<"\\", " ">>), "=", <<"\\", "=">>)

RECURSIVE TagStr(_, _)
TagStr(tags, i) ==
  IF i > Len(tags) THEN <<>>
  ELSE << <<tags[i][1], escTag(tags[i][2])>> >> \o TagStr(tags, i + 1)

RECURSIVE FieldStr(_, _)
FieldStr(fields, i) ==
  IF i > Len(fields) THEN <<>>
  ELSE (IF NumberIsFinite(fields[i][2]) THEN << fields[i] >> ELSE <<>>)
       \o FieldStr(fields, i + 1)

\* BigInt(tms) for an integer tms >= 0: the big integer sec * 1000 + ms.
BigInt(tms) == [sec |-> tms \div 1000, ms |-> tms % 1000]

\* Number(tms) * 1e6 in double precision, for products below 2^53 (exact) and
\* from 2^60 up to 2^61, where doubles are 256 apart: round to nearest, ties
\* to even.
tsNsDouble(b) ==
  LET lo == b.ms * NsPerMs
      down == lo - (lo % 256)
      up == down + 256
  IN IF b.sec < 9007199 THEN [hi |-> b.sec, lo |-> lo]
     ELSE [hi |-> b.sec,
           lo |-> IF lo % 256 < 128 THEN down
                  ELSE IF lo % 256 > 128 THEN up
                  ELSE IF (down \div 256) % 2 = 0 THEN down ELSE up]

\* b * 1000000n, exact, as two limbs of base 10^9: the product is
\* hi * 10^9 + lo.
tsNs(b) == [hi |-> b.sec, lo |-> b.ms * NsPerMs]

\* line(measurement, tags, fields, tms): None for null, else the line as
\* its parts. The measurement literals of run hold no backslash, comma or
\* space, so escMeas returns them as they are.
line(measurement, tags, fields, tms) ==
  LET fieldStr == FieldStr(fields, 1)
  IN IF fieldStr = <<>> THEN None
     ELSE Some([measurement |-> measurement, tagStr |-> TagStr(tags, 1),
                fieldStr |-> fieldStr, tsNs |-> tsNs(BigInt(tms))])

\* ============================================================ the worker
\* The two entry points that invoke run(env): the cron trigger and the
\* manual /run endpoint.
Procs == {"scheduled", "manual"}

\* Values of env.BOOTSTRAP_LOOKBACK_MINUTES: unset, "0" and "10".
LookbackEnv == {None, Some(0), Some(10)}

\* Number(env.BOOTSTRAP_LOOKBACK_MINUTES ?? 180)
DefaultLookbackMin == 180
LookbackMin(envValue) == IF envValue = None THEN DefaultLookbackMin ELSE envValue[1]

\* Date.now(): minute 25 of the modelled hour.
NowMs == 25 * MsPerMinute

\* Date.now() in the n-th invocation: five minutes pass from one invocation
\* to the next.
NowOf(n) == NowMs + (n - 1) * 5 * MsPerMinute

\* The key of each feed that carries the scalar in the modelled rows.
FeedKey(s) ==
  CASE s = "k" -> "kp"
    [] s = "wind" -> "proton_speed"
    [] s = "mag" -> "bt"

FeedRow(s, min, v) ==
  Row(IsoTag(min), <<>>, [key \in SrcKeys(s) |-> IF key = FeedKey(s) THEN v ELSE Undefined])

\* The rows the feeds return to run: at minute 5 a row with the number 5,
\* at minute 15 a row whose scalar is null, at minute 20 a row with the
\* number 5 and one with the text " 7 ".
FeedRows(s) ==
  {FeedRow(s, 5, Num("5")), FeedRow(s, 15, Null),
   FeedRow(s, 20, Num("5")), FeedRow(s, 20, Str(" 7 "))}

\* The three arrays a run may fetch: at most MaxRows records in all.
Feeds ==
  UNION {
    UNION {
      UNION {
        {[k |-> x, wind |-> y, mag |-> z] :
            x \in [1..a -> FeedRows("k")],
            y \in [1..b -> FeedRows("wind")],
            z \in [1..c -> FeedRows("mag")]}
        : c \in 0..(MaxRows - a - b)}
      : b \in 0..(MaxRows - a)}
    : a \in 0..MaxRows}

NoFeeds == [s \in Series |-> <<>>]
NoWatermarks == [s \in Series |-> None]

\* Outcomes of one fetchJson call.
FetchOutcomes == {"ok", "non2xx", "network", "timeout"}
FetchFailures == FetchOutcomes \ {"ok"}

\* The value run returns (status "ok") or the failure it throws.
NoResult ==
  [status |-> "none", error |-> "", pushed |-> 0, committed |-> FALSE, state |-> NoWatermarks]
\* A return value that always says committed: true.
ReturnedCommitted(pushed, committed, state) ==
  [status |-> "ok", error |-> "", pushed |-> pushed, committed |-> TRUE, state |-> state]
Returned(pushed, committed, state) ==
  [status |-> "ok", error |-> "", pushed |-> pushed, committed |-> committed, state |-> state]
Thrown(by) ==
  [status |-> "error", error |-> by, pushed |-> 0, committed |-> FALSE, state |-> NoWatermarks]

\* Calls issued to the collaborators, and the 2xx answers of the sink.
NoCalls == [get |-> 0, fetch |-> 0, push |-> 0, pushOk |-> 0, put |-> 0]
NoRecord == [exists |-> FALSE, wm |-> NoWatermarks]
NoPrev ==
  [ended |-> "none", feeds |-> NoFeeds, lines |-> <<>>, slices |-> NoFeeds,
   state |-> NoRecord, lookbackMin |-> 0]
NoInvocation == [seq |-> 0, lookbackMin |-> 0, overlapped |-> FALSE]

VARIABLES
  store,            \* the KV record "noaa_state": [exists, wm]
  delivered,        \* the lines of the batches the sink has accepted
  runs,             \* number of invocations of run so far
  prev,             \* the run that ended last: how it ended, what it fetched
  pc,               \* per invocation: where run stands
  state,            \* per invocation: what STATE.get returned
  last,             \* per invocation: the loaded watermarks
  bootstrapSinceMs, \* per invocation
  fetched,          \* per invocation: outcome of each fetchJson
  raw,              \* per invocation: kRaw, windRaw, magRaw
  newRaw,           \* per invocation: kNewRaw, windNewRaw, magNewRaw
  lines,            \* per invocation: the encoded lines
  proposedState,    \* per invocation
  result,           \* per invocation: what run returned or that it threw
  calls,            \* per invocation: calls made to the collaborators
  replay,           \* per invocation: the previous run, if it fetched the same feeds
  invoc,            \* per invocation: its ordinal, its lookbackMin, and whether
                    \* another one was in flight at any time between its
                    \* STATE.get and its end
  fnSeries, fnJson, fnLast, fnBoot, fnStage, fnOut, fnPoints, fnLines,
  nsIn, nsOut       \* tsNs on its own: BigInt(tms) and the product

runVars == <<store, delivered, runs, prev, pc, state, last, bootstrapSinceMs, fetched, raw,
             newRaw, lines, proposedState, result, calls, replay, invoc>>
nsVars == <<nsIn, nsOut>>
fnVars == <<fnSeries, fnJson, fnLast, fnBoot, fnStage, fnOut, fnPoints, fnLines, nsVars>>
vars == <<runVars, fnVars>>

\* ------------------------------------------------------------ run, steps
Measurement(s) ==
  CASE s = "k" -> "spaceweather_kp"
    [] s = "wind" -> "solarwind_plasma"
    [] s = "mag" -> "solarwind_mag"

RECURSIVE EncodeLoop(_, _, _)
EncodeLoop(measurement, points, i) ==
  IF i > Len(points) THEN <<>>
  ELSE line(measurement, points[i].tags, points[i].fields, points[i].tms)
       \o EncodeLoop(measurement, points, i + 1)

\* The first loop of run: every kp point is tagged { source: "noaa" }.
RECURSIVE EncodeKpLoop(_, _)
EncodeKpLoop(points, i) ==
  IF i > Len(points) THEN <<>>
  ELSE line(Measurement("k"), << <<"source", Noaa>> >>, points[i].fields, points[i].tms)
       \o EncodeKpLoop(points, i + 1)

\* The points of one series from its sliced rows.
PointsOf(s, rows) ==
  CASE s = "k" -> kPoints(rows)
    [] s = "wind" -> normalizePoints(rows, MAP_WIND)
    [] s = "mag" -> normalizePoints(rows, MAP_MAG)

\* The encode loop of one series over its points.
EncodeSeries(s, points) ==
  IF s = "k" THEN EncodeKpLoop(points, 1)
  ELSE EncodeLoop(Measurement(s), points, 1)

\* The lines of one series from its sliced rows.
LinesOf(s, rows) == EncodeSeries(s, PointsOf(s, rows))

\* lines with the mag loop run first.
EncodeMagFirst(slices) ==
  LinesOf("mag", slices.mag) \o LinesOf("k", slices.k) \o LinesOf("wind", slices.wind)

\* lines after the three loops: kp, then wind, then mag.
Encode(slices) ==
  LinesOf("k", slices.k) \o LinesOf("wind", slices.wind) \o LinesOf("mag", slices.mag)

\* proposedState that never goes below the loaded watermark.
ProposedMonotone(slices, lastWm) ==
  [s \in Series |->
     LET t == latestTsMs(slices[s])
     IN IF t = None THEN lastWm[s]
        ELSE IF lastWm[s] # None /\ lastWm[s][1] > t[1] THEN lastWm[s] ELSE t]

\* latestTsMs(xNewRaw) ?? last.x
Proposed(slices, lastWm) ==
  [s \in Series |->
     IF latestTsMs(slices[s]) # None THEN latestTsMs(slices[s]) ELSE lastWm[s]]

\* bootstrapSinceMs computed as soon as one watermark is absent.
BootstrapSinceAnyAbsent(lastWm, lookbackMin, now) ==
  IF (~MsTruthy(lastWm.k) \/ ~MsTruthy(lastWm.wind) \/ ~MsTruthy(lastWm.mag))
     /\ lookbackMin > 0
  THEN Some(now - lookbackMin * MsPerMinute)
  ELSE None

\* bootstrapSinceMs of run.
BootstrapSince(lastWm, lookbackMin, now) ==
  IF ~MsTruthy(lastWm.k) /\ ~MsTruthy(lastWm.wind) /\ ~MsTruthy(lastWm.mag)
     /\ lookbackMin > 0
  THEN Some(now - lookbackMin * MsPerMinute)
  ELSE None

Active(p) == pc[p] \in {"loading", "fetching", "pushing", "putting"}
Ended(p) == pc[p] \in {"done", "error", "crashed"}

Range(seq) == {seq[i] : i \in 1..Len(seq)}

\* What is remembered of a run when it ends.
EndOf(p, how) ==
  [ended |-> how, feeds |-> raw[p], lines |-> lines[p], slices |-> newRaw[p],
   state |-> state[p], lookbackMin |-> invoc[p].lookbackMin]

Pending == [s \in Series |-> "pending"]

\* The commit gate taken on the sliced rows instead of the lines.
NoOpBySlices(ls, slices) == \A s \in Series : Len(slices[s]) = 0

\* The commit gate of run: !lines.length
NoOp(ls, slices) == Len(ls) = 0

\* Starting invocation p drops what ended invocations left behind.
Fresh(f, p, v, blank) ==
  [q \in Procs |-> IF q = p THEN v ELSE IF Ended(q) THEN blank ELSE f[q]]

NsIdle == nsIn = BigInt(0) /\ nsOut = <<>>

SliceIdle ==
  /\ fnSeries = "k" /\ fnJson = Json(TRUE, <<>>) /\ fnLast = None /\ fnBoot = None
  /\ fnStage = "off" /\ fnOut = <<>> /\ fnPoints = <<>> /\ fnLines = <<>>

FnIdle == SliceIdle /\ NsIdle

RunInit ==
  /\ store = NoRecord
  /\ delivered = {}
  /\ runs = 0
  /\ prev = NoPrev
  /\ pc = [p \in Procs |-> "idle"]
  /\ state = [p \in Procs |-> NoRecord]
  /\ last = [p \in Procs |-> NoWatermarks]
  /\ bootstrapSinceMs = [p \in Procs |-> None]
  /\ fetched = [p \in Procs |-> Pending]
  /\ raw = [p \in Procs |-> NoFeeds]
  /\ newRaw = [p \in Procs |-> NoFeeds]
  /\ lines = [p \in Procs |-> <<>>]
  /\ proposedState = [p \in Procs |-> NoWatermarks]
  /\ result = [p \in Procs |-> NoResult]
  /\ calls = [p \in Procs |-> NoCalls]
  /\ replay = [p \in Procs |-> NoPrev]
  /\ invoc = [p \in Procs |-> NoInvocation]

Init == RunInit /\ FnIdle

\* STATE.get that answers null whatever the record holds.
StateGetNull(p) == NoRecord

\* await env.STATE.get("noaa_state", "json"): the record as it is now.
StateGet(p) == store

\* run is invoked and issues STATE.get (line 156).
Begin(p, envLookback) ==
  /\ ~Active(p)
  /\ runs < MaxRuns
  /\ runs' = runs + 1
  /\ pc' = Fresh(pc, p, "loading", "idle")
  /\ state' = Fresh(state, p, NoRecord, NoRecord)
  /\ last' = Fresh(last, p, NoWatermarks, NoWatermarks)
  /\ bootstrapSinceMs' = Fresh(bootstrapSinceMs, p, None, None)
  /\ fetched' = Fresh(fetched, p, Pending, Pending)
  /\ raw' = Fresh(raw, p, NoFeeds, NoFeeds)
  /\ newRaw' = Fresh(newRaw, p, NoFeeds, NoFeeds)
  /\ lines' = Fresh(lines, p, <<>>, <<>>)
  /\ proposedState' = Fresh(proposedState, p, NoWatermarks, NoWatermarks)
  /\ result' = Fresh(result, p, NoResult, NoResult)
  /\ calls' = Fresh(calls, p, [NoCalls EXCEPT !.get = 1], NoCalls)
  /\ replay' = Fresh(replay, p, NoPrev, NoPrev)
  /\ invoc' =
       [q \in Procs |->
          IF q = p THEN [seq |-> runs + 1, lookbackMin |-> LookbackMin(envLookback),
                         overlapped |-> \E x \in Procs : Active(x)]
          ELSE IF Active(q) THEN [invoc[q] EXCEPT !.overlapped = TRUE]
          ELSE IF Ended(q) THEN NoInvocation
          ELSE invoc[q]]
  /\ UNCHANGED <<store, delivered, prev>>

\* An invocation that starts while no other one is in flight.
Load(p) ==
  /\ \A q \in Procs : ~Active(q)
  /\ \E envLookback \in LookbackEnv : Begin(p, envLookback)
  /\ UNCHANGED fnVars

\* STATE.get resolves; run, lines 156-175: state, last, bootstrapSinceMs, and
\* the three fetchJson calls are issued.
GetOk(p) ==
  LET got == StateGet(p)
      loaded == IF got.exists THEN got.wm ELSE NoWatermarks
  IN /\ pc[p] = "loading"
     /\ state' = [state EXCEPT ![p] = got]
     /\ last' = [last EXCEPT ![p] = loaded]
     /\ bootstrapSinceMs' =
          [bootstrapSinceMs EXCEPT
             ![p] = BootstrapSince(loaded, invoc[p].lookbackMin, NowOf(invoc[p].seq))]
     /\ calls' = [calls EXCEPT ![p].fetch = 3]
     /\ pc' = [pc EXCEPT ![p] = "fetching"]
     /\ UNCHANGED <<store, delivered, runs, prev, fetched, raw, newRaw, lines, proposedState,
                    result, replay>>
     /\ UNCHANGED <<fnVars, invoc>>

\* STATE.get rejects; run throws.
GetFail(p) ==
  /\ pc[p] = "loading"
  /\ pc' = [pc EXCEPT ![p] = "error"]
  /\ result' = [result EXCEPT ![p] = Thrown("get")]
  /\ prev' = EndOf(p, "get_failed")
  /\ UNCHANGED <<store, delivered, runs, state, last, bootstrapSinceMs, fetched, raw, newRaw,
                 lines, proposedState, calls, replay>>
  /\ UNCHANGED <<fnVars, invoc>>

\* run, lines 177-231, on the three arrays fetched: slice, normalize,
\* encode, proposedState, the commit gate, and the POST to the sink is
\* issued.
Resolved(p, feeds) ==
  /\ LET slices == [s \in Series |->
                        sliceNew(Json(TRUE, feeds[s]), last[p][s], bootstrapSinceMs[p])]
           ls == Encode(slices)
       IN /\ fetched' = [fetched EXCEPT ![p] = [s \in Series |-> "ok"]]
          /\ raw' = [raw EXCEPT ![p] = feeds]
          /\ newRaw' = [newRaw EXCEPT ![p] = slices]
          /\ lines' = [lines EXCEPT ![p] = ls]
          /\ proposedState' = [proposedState EXCEPT ![p] = Proposed(slices, last[p])]
          /\ replay' = [replay EXCEPT ![p] = IF prev.feeds = feeds THEN prev ELSE NoPrev]
          /\ IF NoOp(ls, slices)
             THEN /\ pc' = [pc EXCEPT ![p] = "done"]
                  /\ result' = [result EXCEPT ![p] = Returned(0, FALSE, last[p])]
                  /\ calls' = calls
                  /\ prev' = [ended |-> "noop", feeds |-> feeds, lines |-> ls,
                              slices |-> slices, state |-> state[p],
                              lookbackMin |-> invoc[p].lookbackMin]
             ELSE /\ pc' = [pc EXCEPT ![p] = "pushing"]
                  /\ result' = result
                  /\ calls' = [calls EXCEPT ![p].push = 1]
                  /\ prev' = NoPrev
  /\ UNCHANGED <<store, delivered, runs, state, last, bootstrapSinceMs>>
  /\ UNCHANGED <<fnVars, invoc>>

\* Promise.all resolves with the three arrays and run goes on.
FetchResolve(p) ==
  /\ pc[p] = "fetching"
  /\ \E feeds \in Feeds : Resolved(p, feeds)

\* FetchReject with the failure swallowed: the run returns a no-op.
FetchRejectSwallowed(p) ==
  /\ pc[p] = "fetching"
  /\ \E s \in Series, why \in FetchFailures :
       fetched' = [fetched EXCEPT ![p] = [x \in Series |-> IF x = s THEN why ELSE "ok"]]
  /\ pc' = [pc EXCEPT ![p] = "done"]
  /\ result' = [result EXCEPT ![p] = Returned(0, FALSE, last[p])]
  /\ prev' = EndOf(p, "noop")
  /\ UNCHANGED <<store, delivered, runs, state, last, bootstrapSinceMs, raw, newRaw, lines,
                 proposedState, calls, replay>>
  /\ UNCHANGED <<fnVars, invoc>>

\* One fetchJson rejects (non-2xx, network error or the timeout abort)
\* while the other two have resolved or are still pending: Promise.all
\* rejects and run throws.
FetchReject(p) ==
  /\ pc[p] = "fetching"
  /\ \E s \in Series, why \in FetchFailures :
       \E others \in [Series \ {s} -> {"ok", "pending"}] :
         fetched' = [fetched EXCEPT ![p] =
                       [x \in Series |-> IF x = s THEN why ELSE others[x]]]
  /\ pc' = [pc EXCEPT ![p] = "error"]
  /\ result' = [result EXCEPT ![p] = Thrown("fetch")]
  /\ prev' = EndOf(p, "fetch_failed")
  /\ UNCHANGED <<store, delivered, runs, state, last, bootstrapSinceMs, raw, newRaw, lines,
                 proposedState, calls, replay>>
  /\ UNCHANGED <<fnVars, invoc>>

\* PushOk with the record written as soon as the sink has answered, before
\* the put of line 235 is issued.
PushOkWritesRecord(p) ==
  /\ pc[p] = "pushing"
  /\ delivered' = delivered \cup Range(lines[p])
  /\ store' = [exists |-> TRUE, wm |-> proposedState[p]]
  /\ pc' = [pc EXCEPT ![p] = "putting"]
  /\ calls' = [calls EXCEPT ![p].pushOk = 1, ![p].put = 1]
  /\ UNCHANGED <<runs, prev, state, last, bootstrapSinceMs, fetched, raw, newRaw, lines,
                 proposedState, result, replay>>
  /\ UNCHANGED <<fnVars, invoc>>

\* pushToGrafana resolves (r.ok); run issues STATE.put.
PushOk(p) ==
  /\ pc[p] = "pushing"
  /\ delivered' = delivered \cup Range(lines[p])
  /\ pc' = [pc EXCEPT ![p] = "putting"]
  /\ calls' = [calls EXCEPT ![p].pushOk = 1, ![p].put = 1]
  /\ UNCHANGED <<store, runs, prev, state, last, bootstrapSinceMs, fetched, raw, newRaw, lines,
                 proposedState, result, replay>>
  /\ UNCHANGED <<fnVars, invoc>>

\* PushFail with the failure caught and the run going on to STATE.put.
PushFailThenPut(p) ==
  /\ pc[p] = "pushing"
  /\ pc' = [pc EXCEPT ![p] = "putting"]
  /\ calls' = [calls EXCEPT ![p].put = 1]
  /\ UNCHANGED <<store, delivered, runs, prev, state, last, bootstrapSinceMs, fetched, raw,
                 newRaw, lines, proposedState, result, replay>>
  /\ UNCHANGED <<fnVars, invoc>>

\* pushToGrafana throws: the sink answered non-2xx or fetch rejected.
PushFail(p) ==
  /\ pc[p] = "pushing"
  /\ pc' = [pc EXCEPT ![p] = "error"]
  /\ result' = [result EXCEPT ![p] = Thrown("push")]
  /\ prev' = EndOf(p, "push_failed")
  /\ UNCHANGED <<store, delivered, runs, state, last, bootstrapSinceMs, fetched, raw, newRaw,
                 lines, proposedState, calls, replay>>
  /\ UNCHANGED <<fnVars, invoc>>

\* STATE.put resolves; run returns.
PutOk(p) ==
  /\ pc[p] = "putting"
  /\ store' = [exists |-> TRUE, wm |-> proposedState[p]]
  /\ pc' = [pc EXCEPT ![p] = "done"]
  /\ result' = [result EXCEPT ![p] = Returned(Len(lines[p]), TRUE, proposedState[p])]
  /\ prev' = EndOf(p, "committed")
  /\ UNCHANGED <<delivered, runs, state, last, bootstrapSinceMs, fetched, raw, newRaw, lines,
                 proposedState, calls, replay>>
  /\ UNCHANGED <<fnVars, invoc>>

\* PutFail with the kp watermark written before the failure.
PutFailPartial(p) ==
  /\ pc[p] = "putting"
  /\ store' = [exists |-> TRUE, wm |-> [store.wm EXCEPT !.k = proposedState[p].k]]
  /\ pc' = [pc EXCEPT ![p] = "error"]
  /\ result' = [result EXCEPT ![p] = Thrown("put")]
  /\ prev' = EndOf(p, "put_failed")
  /\ UNCHANGED <<delivered, runs, state, last, bootstrapSinceMs, fetched, raw, newRaw,
                 lines, proposedState, calls, replay>>
  /\ UNCHANGED <<fnVars, invoc>>

\* STATE.put rejects; run throws.
PutFail(p) ==
  /\ pc[p] = "putting"
  /\ pc' = [pc EXCEPT ![p] = "error"]
  /\ result' = [result EXCEPT ![p] = Thrown("put")]
  /\ prev' = EndOf(p, "put_failed")
  /\ UNCHANGED <<store, delivered, runs, state, last, bootstrapSinceMs, fetched, raw, newRaw,
                 lines, proposedState, calls, replay>>
  /\ UNCHANGED <<fnVars, invoc>>

\* The worker is torn down while run waits at one of its awaits.
Crash(p) ==
  /\ Active(p)
  /\ pc' = [pc EXCEPT ![p] = "crashed"]
  /\ prev' = EndOf(p, "crashed")
  /\ UNCHANGED <<store, delivered, runs, state, last, bootstrapSinceMs, fetched, raw, newRaw,
                 lines, proposedState, result, calls, replay>>
  /\ UNCHANGED <<fnVars, invoc>>

\* Invocations by the cron trigger alone never overlap: the next one starts
\* after the previous one has ended.
Next ==
  \E p \in {"scheduled"} :
    \/ Load(p)
    \/ GetOk(p)
    \/ GetFail(p)
    \/ FetchResolve(p)
    \/ FetchReject(p)
    \/ PushOk(p)
    \/ PushFail(p)
    \/ PutOk(p)
    \/ PutFail(p)
    \/ Crash(p)

Spec == Init /\ [][Next]_vars

\* ------------------------------------------------- overlapping invocations
\* Nothing in run or in the entry points keeps a second invocation from
\* starting while one is at an await: a cron event or a /run request may
\* arrive at any time.
LoadOverlapping(p) ==
  /\ \E q \in Procs \ {p} : Active(q)
  /\ \E envLookback \in LookbackEnv : Begin(p, envLookback)
  /\ UNCHANGED fnVars

\* The arrays fetched by invocations that may overlap: at most
\* MaxOverlapRows records in all.
OverlapFeeds ==
  {f \in Feeds : Len(f.k) + Len(f.wind) + Len(f.mag) <= MaxOverlapRows}

FetchResolveOverlap(p) ==
  /\ pc[p] = "fetching"
  /\ \E feeds \in OverlapFeeds : Resolved(p, feeds)

NextOverlap ==
  \E p \in Procs :
    \/ Load(p)
    \/ LoadOverlapping(p)
    \/ GetOk(p)
    \/ GetFail(p)
    \/ FetchResolveOverlap(p)
    \/ FetchReject(p)
    \/ PushOk(p)
    \/ PushFail(p)
    \/ PutOk(p)
    \/ PutFail(p)
    \/ Crash(p)

SpecOverlap == Init /\ [][NextOverlap]_vars

\* ===================================== sliceNew, normalize, line on their own
\* The raw scalars a field of a row may hold.
ScalarVals ==
  {Undefined, Null, Num("5"), Num("1e999"), Str(""), Str("NULL"), Str("NaN"),
   Str("Infinity"), Str(" 7 ")}

\* The time_tag values a row may hold.
TimeTags ==
  {IsoTag(5), IsoTag(10), IsoFracTag(10), IsoTag(0), TextTag, EmptyTag, UndefinedTag}

SpecialSource == <<"A", " ", "=", ",", "\\">>

\* Rows for sliceNew: every time_tag with a wind row whose speed is 5, and
\* a second row at "1970-01-01T00:10:00Z" with other fields and a source.
SliceRows ==
  {[FeedRow("wind", 0, Num("5")) EXCEPT !.time_tag = t] : t \in TimeTags} \cup
  {[FeedRow("wind", 10, Null) EXCEPT !.source = SpecialSource]}

SeqsUpTo(S, n) == UNION {[1..m -> S] : m \in 0..n}

\* Rows of series s with every combination of scalars in its keys.
ScalarRows(s) ==
  {Row(IsoTag(10), <<>>, f) : f \in [SrcKeys(s) -> ScalarVals]}

FnInput(s, json, lastTsMs, boot) ==
  [series |-> s, json |-> json, last |-> lastTsMs, boot |-> boot]

\* The arguments tried: row sequences with every watermark and bootstrap
\* cutoff, a JSON value that is no array, and single rows of every series.
InitFn ==
  /\ RunInit
  /\ NsIdle
  /\ \/ /\ fnSeries = "wind"
        /\ \E rows \in SeqsUpTo(SliceRows, MaxSliceRows) : fnJson = Json(TRUE, rows)
        /\ fnLast \in {None, Some(0), Some(5 * MsPerMinute), Some(15 * MsPerMinute)}
        /\ fnBoot \in {None, Some(7 * MsPerMinute)}
     \/ /\ fnSeries = "wind"
        /\ fnJson = Json(FALSE, <<>>)
        /\ fnLast = None
        /\ fnBoot = None
     \/ /\ fnSeries \in Series
        /\ \E r \in ScalarRows(fnSeries) : fnJson = Json(TRUE, <<r>>)
        /\ fnLast = None
        /\ fnBoot = None
  /\ fnStage = "input"
  /\ fnOut = <<>>
  /\ fnPoints = <<>>
  /\ fnLines = <<>>

ApplySlice ==
  /\ fnStage = "input"
  /\ fnOut' = sliceNew(fnJson, fnLast, fnBoot)
  /\ fnStage' = "sliced"
  /\ UNCHANGED <<fnSeries, fnJson, fnLast, fnBoot, fnPoints, fnLines>>
  /\ UNCHANGED <<runVars, nsVars>>

\* The rows handed to the normalizer: the slice, or the fetched array as
\* it is.
NormalizeArg == IF fnStage \in {"sliced", "normalized", "encoded"} THEN fnOut ELSE fnJson.rows

ApplyNormalize ==
  /\ fnStage \in {"input", "sliced"}
  /\ fnJson.array
  /\ fnPoints' = PointsOf(fnSeries, NormalizeArg)
  /\ fnStage' = IF fnStage = "sliced" THEN "normalized" ELSE "normalized_raw"
  /\ UNCHANGED <<fnSeries, fnJson, fnLast, fnBoot, fnOut, fnLines>>
  /\ UNCHANGED <<runVars, nsVars>>

ApplyEncode ==
  /\ fnStage \in {"normalized", "normalized_raw"}
  /\ fnLines' = EncodeSeries(fnSeries, fnPoints)
  /\ fnStage' = IF fnStage = "normalized" THEN "encoded" ELSE "encoded_raw"
  /\ UNCHANGED <<fnSeries, fnJson, fnLast, fnBoot, fnOut, fnPoints>>
  /\ UNCHANGED <<runVars, nsVars>>

NextFn == ApplySlice \/ ApplyNormalize \/ ApplyEncode

SpecFn == InitFn /\ [][NextFn]_vars

\* ============================================================ tsNs on its own
\* The timestamps tried, as BigInt(tms): every millisecond of the seconds
\* 0, 1, 1700000000, 1700000001 and 2147483647 after the epoch.
TsInputs ==
  {[sec |-> x, ms |-> y] : x \in {0, 1, 1700000000, 1700000001, 2147483647}, y \in 0..999}

InitNs ==
  /\ RunInit
  /\ SliceIdle
  /\ nsIn \in TsInputs
  /\ nsOut = <<>>

ApplyTsNs ==
  /\ nsOut = <<>>
  /\ nsOut' = <<tsNs(nsIn)>>
  /\ UNCHANGED <<runVars, nsIn>>
  /\ UNCHANGED <<fnSeries, fnJson, fnLast, fnBoot, fnStage, fnOut, fnPoints, fnLines>>

NextNs == ApplyTsNs

SpecNs == InitNs /\ [][NextNs]_vars

\* ================================================================ claims
AllFetched(p) == \A s \in Series : fetched[p][s] = "ok"
FetchFailed(p) == \E s \in Series : fetched[p][s] \in FetchFailures

\* Watermark a is not above watermark b (an absent one is below all).
WmLeq(a, b) == a = None \/ (b # None /\ a[1] <= b[1])

\* The record of series s has a parseable timestamp and a finite mapped field.
ValidRecord(s, r) ==
  /\ toMs(r.time_tag) # None
  /\ \E key \in SrcKeys(s) : isFiniteNumber(Get(r, key))

\* The line that encodes record r of series s.
LineOfRecord(s, r) == LinesOf(s, <<r>>)[1]

\* The cutoff run p applied to series s.
CutoffOf(p, s) == Since(last[p][s], bootstrapSinceMs[p])

NewerThanCutoff(p, s, r) ==
  CutoffOf(p, s) = None \/ toMs(r.time_tag)[1] > CutoffOf(p, s)[1]

\* C1: STATE.put is issued only after the sink answered 2xx to this run's
\* batch, the record changes only by that put, and a run whose push failed
\* throws and leaves the record as STATE.get returned it.
C1_PutOnlyAfterPush ==
  \A p \in Procs :
    /\ calls[p].put > 0 =>
         /\ calls[p].pushOk > 0
         /\ lines[p] # <<>>
         /\ Range(lines[p]) \subseteq delivered
    /\ (calls[p].fetch > 0 /\ store # state[p]) =>
         /\ result[p].committed
         /\ calls[p].pushOk > 0
         /\ store = [exists |-> TRUE, wm |-> proposedState[p]]
    /\ (calls[p].push > 0 /\ calls[p].pushOk = 0 /\ pc[p] = "error") =>
         /\ result[p] = Thrown("push")
         /\ calls[p].put = 0
         /\ store = state[p]

\* A run whose push failed although an earlier run had committed and this
\* one proposed other watermarks.
C1_Witness ==
  \E p \in Procs :
    /\ result[p] = Thrown("push")
    /\ store.exists
    /\ proposedState[p] # store.wm

\* C2: no committed run writes a watermark below the one it loaded.
C2_WatermarkMonotone ==
  \A p \in Procs :
    result[p].committed => \A s \in Series : WmLeq(last[p][s], store.wm[s])

\* C3: when a committing run moves a watermark to or past the timestamp of
\* a valid record of the feed it fetched, newer than its cutoff, a line that
\* encodes that record has been accepted by the sink.
C3_NoSilentSkip ==
  \A p \in Procs :
    result[p].committed =>
      \A s \in Series : \A i \in 1..Len(raw[p][s]) :
        LET r == raw[p][s][i]
        IN (/\ ValidRecord(s, r)
            /\ NewerThanCutoff(p, s, r)
            /\ ~WmLeq(Some(toMs(r.time_tag)[1]), last[p][s])
            /\ WmLeq(Some(toMs(r.time_tag)[1]), store.wm[s]))
           => LineOfRecord(s, r) \in delivered

\* C4: a run whose encoding yields no line never contacts the sink, never
\* calls STATE.put and returns committed = false with the loaded watermarks.
C4_CommitGate ==
  \A p \in Procs :
    (AllFetched(p) /\ lines[p] = <<>>) =>
      /\ calls[p].push = 0
      /\ calls[p].put = 0
      /\ pc[p] = "done"
      /\ result[p] = Returned(0, FALSE, last[p])
      /\ store = state[p]

\* A no-op run that had sliced rows, after an earlier commit.
C4_Witness ==
  \E p \in Procs :
    /\ AllFetched(p)
    /\ lines[p] = <<>>
    /\ \E s \in Series : newRaw[p][s] # <<>>
    /\ store.exists

\* C5: when one fetch fails the run throws: nothing is sliced or encoded,
\* the sink is not contacted and the record is not written.
C5_FetchFailureFailsRun ==
  \A p \in Procs :
    FetchFailed(p) =>
      /\ pc[p] = "error"
      /\ result[p] = Thrown("fetch")
      /\ newRaw[p] = NoFeeds
      /\ lines[p] = <<>>
      /\ calls[p].push = 0
      /\ calls[p].put = 0
      /\ store = state[p]

\* The timeout of one fetch fails a run whose other two fetches succeeded.
C5_Witness ==
  \E p \in Procs : \E s \in Series :
    /\ fetched[p][s] = "timeout"
    /\ \A x \in Series \ {s} : fetched[p][x] = "ok"
    /\ pc[p] = "error"
    /\ store.exists

\* The series a line belongs to, and its timestamp in milliseconds.
SeriesOfLine(l) == CHOOSE s \in Series : Measurement(s) = l.measurement
LineMs(l) == l.tsNs.hi * 1000 + l.tsNs.lo \div NsPerMs

Replayed(p) == replay[p].ended = "committed" /\ AllFetched(p)

\* C6 as stated: a run that fetches the feeds of the committed run before it
\* encodes no line, does not contact the sink and does not call STATE.put.
C6_SecondRunIdle ==
  \A p \in Procs :
    Replayed(p) => (lines[p] = <<>> /\ calls[p].push = 0 /\ calls[p].put = 0)

\* C6, amended: a run that fetches the feeds of the committed run before it
\* encodes again every line of that run's batch whose timestamp is newer
\* than its series' committed watermark - OVERLAP_MS, and contacts the sink
\* again whenever it encodes a line; it is idle only if no line is encoded.
C6_SecondRunRedelivers ==
  \A p \in Procs :
    Replayed(p) =>
      /\ \A i \in 1..Len(replay[p].lines) :
           LET l == replay[p].lines[i]
               s == SeriesOfLine(l)
           IN /\ last[p][s] # None
              /\ LineMs(l) > last[p][s][1] - OVERLAP_MS => l \in Range(lines[p])
      /\ lines[p] # <<>> => calls[p].push = 1
      /\ lines[p] = <<>> => (calls[p].push = 0 /\ calls[p].put = 0)

\* A replayed run that encodes one line of the earlier batch again and
\* leaves out another one, older than the overlap.
C6_Witness ==
  \E p \in Procs :
    /\ Replayed(p)
    /\ \E i, j \in 1..Len(replay[p].lines) :
         /\ replay[p].lines[i] \in Range(lines[p])
         /\ replay[p].lines[j] \notin Range(lines[p])
    /\ calls[p].push = 1

\* ------------------------------------------------ claims about sliceNew
Sliced == fnStage = "sliced" /\ fnJson.array
FnCutoff == Since(fnLast, fnBoot)
FnRows == fnJson.rows
InOut(r) == r \in Range(fnOut)

\* C7 as stated: with a watermark, every row with a parseable timestamp
\* newer than watermark - OVERLAP_MS is in the slice, every row at or before
\* it is not.
C7_EveryNewerRowSliced ==
  (Sliced /\ MsTruthy(fnLast)) =>
    \A i \in 1..Len(FnRows) :
      LET r == FnRows[i]
          t == toMs(r.time_tag)
      IN t # None =>
           /\ t[1] > fnLast[1] - OVERLAP_MS => InOut(r)
           /\ t[1] <= fnLast[1] - OVERLAP_MS => ~InOut(r)

\* C7, amended: with a watermark, for every row with a parseable non-zero
\* timestamp newer than watermark - OVERLAP_MS the slice holds a row with
\* that raw time_tag, namely the first row of the array that carries it;
\* no row of the slice is at or before watermark - OVERLAP_MS.
C7_OverlapSafety ==
  (Sliced /\ MsTruthy(fnLast)) =>
    /\ \A i \in 1..Len(FnRows) :
         LET r == FnRows[i]
             t == toMs(r.time_tag)
         IN (t # None /\ t[1] # 0 /\ t[1] > fnLast[1] - OVERLAP_MS) =>
              /\ \E j \in 1..Len(fnOut) : fnOut[j].time_tag = r.time_tag
              /\ (\A h \in 1..(i - 1) : FnRows[h].time_tag # r.time_tag) => InOut(r)
    /\ \A j \in 1..Len(fnOut) :
         toMs(fnOut[j].time_tag)[1] > fnLast[1] - OVERLAP_MS

\* A slice under watermark 00:15 that keeps a row of 00:10 and leaves out a
\* row of 00:05, which is at the cutoff.
C7_Witness ==
  /\ Sliced
  /\ fnLast = Some(15 * MsPerMinute)
  /\ \E i, j \in 1..Len(FnRows) :
       /\ toMs(FnRows[i].time_tag) = Some(10 * MsPerMinute) /\ InOut(FnRows[i])
       /\ toMs(FnRows[j].time_tag) = Some(5 * MsPerMinute) /\ ~InOut(FnRows[j])

\* C8: the slice holds at most one row per raw time_tag string, whatever
\* the fields of the rows, and two rows that pass the filters with different
\* raw strings of one instant are both in it.
C8_Deduplication ==
  Sliced =>
    /\ \A i, j \in 1..Len(fnOut) : i # j => fnOut[i].time_tag # fnOut[j].time_tag
    /\ \A i, j \in 1..Len(FnRows) :
         LET a == FnRows[i]
             b == FnRows[j]
         IN (/\ a.time_tag # b.time_tag
             /\ MsTruthy(toMs(a.time_tag))
             /\ toMs(a.time_tag) = toMs(b.time_tag)
             /\ (FnCutoff = None \/ toMs(a.time_tag)[1] > FnCutoff[1]))
            => \E x, y \in 1..Len(fnOut) :
                 x # y /\ fnOut[x].time_tag = a.time_tag /\ fnOut[y].time_tag = b.time_tag

\* A slice of three rows, two with one raw string and different fields and
\* one with another spelling of the same instant: two rows are kept.
C8_Witness ==
  /\ Sliced
  /\ Len(FnRows) = 3
  /\ \E i, j \in 1..3 :
       i # j /\ FnRows[i].time_tag = FnRows[j].time_tag /\ FnRows[i].f # FnRows[j].f
  /\ Len(fnOut) = 2
  /\ fnOut[1].time_tag # fnOut[2].time_tag
  /\ toMs(fnOut[1].time_tag) = toMs(fnOut[2].time_tag)

\* C9: the slice is sorted non-decreasing by parsed timestamp.
C9_Ordering ==
  Sliced =>
    \A i, j \in 1..Len(fnOut) :
      i < j => toMs(fnOut[i].time_tag)[1] <= toMs(fnOut[j].time_tag)[1]

\* A slice of rows that arrived latest first.
C9_Witness ==
  /\ Sliced
  /\ Len(fnOut) >= 2
  /\ \E i, j \in 1..Len(FnRows) :
       /\ i < j
       /\ InOut(FnRows[i]) /\ InOut(FnRows[j])
       /\ toMs(FnRows[i].time_tag)[1] > toMs(FnRows[j].time_tag)[1]

\* ----------------------------------- claims about normalizing and encoding
\* The scalars that are absent or not finite: undefined, null, 1e999, "",
\* "NULL", "NaN" and "Infinity".
NonFiniteScalars ==
  {Undefined, Null, Num("1e999"), Str(""), Str("NULL"), Str("NaN"), Str("Infinity")}

\* The record's timestamp is unparseable or parses to zero, or none of its
\* mapped fields is finite.
InvalidRecord(s, r) ==
  \/ r.time_tag.kind # "iso"
  \/ r.time_tag.min = 0
  \/ \A key \in SrcKeys(s) : Get(r, key) \in NonFiniteScalars

\* C10: an invalid record yields no point and no line, every other record
\* yields one point, and every point and line carries at least one field,
\* all of them finite.
C10_DropOnInvalid ==
  /\ fnStage \in {"normalized", "normalized_raw", "encoded", "encoded_raw"} =>
       /\ Len(fnPoints) =
            Cardinality({i \in 1..Len(NormalizeArg) : ~InvalidRecord(fnSeries, NormalizeArg[i])})
       /\ \A n \in 1..Len(fnPoints) :
            /\ fnPoints[n].fields # <<>>
            /\ \A m \in 1..Len(fnPoints[n].fields) : fnPoints[n].fields[m][2].k = "fin"
            /\ \E i \in 1..Len(NormalizeArg) :
                 /\ ~InvalidRecord(fnSeries, NormalizeArg[i])
                 /\ toMs(NormalizeArg[i].time_tag) = Some(fnPoints[n].tms)
  /\ fnStage \in {"encoded", "encoded_raw"} =>
       /\ Len(fnLines) = Len(fnPoints)
       /\ \A n \in 1..Len(fnLines) :
            /\ fnLines[n].fieldStr # <<>>
            /\ \A m \in 1..Len(fnLines[n].fieldStr) : fnLines[n].fieldStr[m][2].k = "fin"

\* A mag row at a parseable time whose four fields are "", "NaN", 1e999
\* and null: no point, no line.
C10_Witness ==
  /\ fnStage = "encoded_raw"
  /\ fnSeries = "mag"
  /\ Len(FnRows) = 1
  /\ FnRows[1].time_tag = IsoTag(10)
  /\ FnRows[1].f["bx_gsm"] = Str("")
  /\ FnRows[1].f["by_gsm"] = Str("NaN")
  /\ FnRows[1].f["bz_gsm"] = Num("1e999")
  /\ FnRows[1].f["bt"] = Null
  /\ fnPoints = <<>>
  /\ fnLines = <<>>

\* --------------------------------------- claims about overlapping invocations
\* C11: an invocation during which no other one was in flight puts on the
\* record it loaded: when it issues STATE.put the record is still the one
\* STATE.get returned, and after its commit the record is its proposedState.
C11_NonOverlappingPutOnLoaded ==
  \A p \in Procs :
    ~invoc[p].overlapped =>
      /\ pc[p] = "putting" => store = state[p]
      /\ result[p].committed => store = [exists |-> TRUE, wm |-> proposedState[p]]

\* The lost update: p called STATE.get before q did, q committed a watermark
\* of series s, and p committed after it a record whose watermark of s is the
\* one p had loaded, below the one q wrote.
C11_LostUpdate ==
  \E p, q \in Procs : \E s \in Series :
    /\ p # q
    /\ invoc[p].overlapped /\ invoc[q].overlapped
    /\ invoc[p].seq < invoc[q].seq
    /\ result[p].committed /\ result[q].committed
    /\ store.wm = proposedState[p]
    /\ proposedState[q][s] # None
    /\ newRaw[p][s] = <<>>
    /\ store.wm[s] = last[p][s]
    /\ ~WmLeq(proposedState[q][s], store.wm[s])

\* C12: every watermark of the record is the timestamp of a line of its
\* series that the sink has accepted.
C12_WatermarkIsDelivered ==
  \A s \in Series :
    store.wm[s] # None =>
      \E l \in delivered : SeriesOfLine(l) = s /\ LineMs(l) = store.wm[s][1]

\* t is the largest parsed timestamp among the rows.
IsMaxTimestamp(t, rows) ==
  /\ \E i \in 1..Len(rows) : toMs(rows[i].time_tag) = t
  /\ \A i \in 1..Len(rows) : toMs(rows[i].time_tag)[1] <= t[1]

\* C13: a committed run has called STATE.put once, and the record it wrote
\* holds for every series the largest parsed timestamp among that series'
\* sliced rows, or the loaded watermark (absent included) when the series
\* has no sliced row.
C13_ProposedPerSeries ==
  \A p \in Procs :
    result[p].committed =>
      /\ calls[p].put = 1
      /\ store.exists
      /\ result[p].state = store.wm
      /\ \A s \in Series :
           IF newRaw[p][s] = <<>> THEN store.wm[s] = last[p][s]
           ELSE IsMaxTimestamp(store.wm[s], newRaw[p][s])

\* A committed run that sliced two rows of different times in one series,
\* kept the present watermark of a second and the absent one of a third.
C13_Witness ==
  \E p \in Procs : \E a, b, c \in Series :
    /\ result[p].committed
    /\ Len(newRaw[p][a]) = 2
    /\ toMs(newRaw[p][a][1].time_tag) # toMs(newRaw[p][a][2].time_tag)
    /\ newRaw[p][b] = <<>> /\ last[p][b] # None /\ store.wm[b] = last[p][b]
    /\ newRaw[p][c] = <<>> /\ last[p][c] = None /\ store.wm[c] = None

\* The slice of series s in run p holds a row for every raw time_tag fetched.
SlicedUnbounded(p, s) ==
  \A i \in 1..Len(raw[p][s]) :
    \E j \in 1..Len(newRaw[p][s]) : newRaw[p][s][j].time_tag = raw[p][s][i].time_tag

\* The slice of series s in run p holds the rows newer than cutoff, one for
\* every raw time_tag, and no row at or before it.
SlicedAfter(p, s, cutoff) ==
  /\ \A j \in 1..Len(newRaw[p][s]) : toMs(newRaw[p][s][j].time_tag)[1] > cutoff
  /\ \A i \in 1..Len(raw[p][s]) :
       toMs(raw[p][s][i].time_tag)[1] > cutoff =>
         \E j \in 1..Len(newRaw[p][s]) : newRaw[p][s][j].time_tag = raw[p][s][i].time_tag

\* C14: a run has the cutoff now - lookback exactly when its three loaded
\* watermarks are absent and its lookback is positive; such a run slices in
\* each of the three series the rows newer than the cutoff and no other;
\* a run without it slices a series whose watermark is absent with no
\* lower bound.
C14_BootstrapDecision ==
  \A p \in Procs :
    calls[p].fetch > 0 =>
      /\ bootstrapSinceMs[p] # None <=>
            ((\A s \in Series : last[p][s] = None) /\ invoc[p].lookbackMin > 0)
      /\ bootstrapSinceMs[p] # None =>
            bootstrapSinceMs[p] =
              Some(NowOf(invoc[p].seq) - invoc[p].lookbackMin * MsPerMinute)
      /\ AllFetched(p) =>
            \A s \in Series :
              IF bootstrapSinceMs[p] # None THEN SlicedAfter(p, s, bootstrapSinceMs[p][1])
              ELSE last[p][s] = None => SlicedUnbounded(p, s)

\* A first run with a lookback of 10 minutes that fetched a row at the
\* cutoff, which it left out, and a newer one, which it sliced.
C14_Witness ==
  \E p \in Procs : \E a, b \in Series :
    /\ AllFetched(p)
    /\ invoc[p].lookbackMin = 10
    /\ bootstrapSinceMs[p] = Some(15 * MsPerMinute)
    /\ Len(raw[p][a]) = 1 /\ toMs(raw[p][a][1].time_tag) = Some(15 * MsPerMinute)
    /\ newRaw[p][a] = <<>>
    /\ Len(newRaw[p][b]) = 1 /\ toMs(newRaw[p][b][1].time_tag) = Some(20 * MsPerMinute)

\* The place of a series in the batch.
SeriesRank(s) == CASE s = "k" -> 1 [] s = "wind" -> 2 [] s = "mag" -> 3

\* C15: in the batch of every run the kp lines come before the wind lines
\* and these before the mag lines, and the lines of one series are in
\* non-decreasing order of timestamp.
C15_BatchOrdering ==
  \A p \in Procs :
    \A i, j \in 1..Len(lines[p]) :
      i < j =>
        LET a == lines[p][i]
            b == lines[p][j]
        IN /\ SeriesRank(SeriesOfLine(a)) <= SeriesRank(SeriesOfLine(b))
           /\ SeriesOfLine(a) = SeriesOfLine(b) => LineMs(a) <= LineMs(b)

\* A batch of two lines of one series whose records were fetched newest
\* first.
C15_Witness ==
  \E p \in Procs : \E s \in Series :
    /\ Len(raw[p][s]) = 2
    /\ toMs(raw[p][s][1].time_tag)[1] > toMs(raw[p][s][2].time_tag)[1]
    /\ Len(lines[p]) = 2
    /\ LineMs(lines[p][1]) < LineMs(lines[p][2])
    /\ calls[p].push = 1

\* Run p fetched the feeds of the run before it, whose STATE.put had failed,
\* under the same lookback.
RetryAfterPutFailure(p) ==
  /\ replay[p].ended = "put_failed"
  /\ AllFetched(p)
  /\ invoc[p].lookbackMin = replay[p].lookbackMin

\* A run whose STATE.put failed threw after the sink had accepted its batch
\* and left the record as it had loaded it.
PutFailureKeepsRecord ==
  \A p \in Procs :
    result[p] = Thrown("put") =>
      /\ pc[p] = "error"
      /\ calls[p].pushOk = 1
      /\ Range(lines[p]) \subseteq delivered
      /\ store = state[p]

\* C16 as stated: a put failure keeps the record, and the next run on the
\* same feeds slices the same rows and encodes the same batch again.
C16_NextRunRedeliversAll ==
  /\ PutFailureKeepsRecord
  /\ \A p \in Procs :
       RetryAfterPutFailure(p) =>
         /\ newRaw[p] = replay[p].slices
         /\ lines[p] = replay[p].lines
         /\ calls[p].push = 1

\* C16, amended: a put failure keeps the record; the next run on the same
\* feeds loads the record the failed run had loaded and encodes again every
\* line of the failed run's batch that is newer than its own cutoff; it
\* slices the same rows and pushes the same batch unless it is a bootstrap
\* run, whose cutoff now - lookback has moved on.
C16_NextRunRedeliversAfterCutoff ==
  /\ PutFailureKeepsRecord
  /\ \A p \in Procs :
       RetryAfterPutFailure(p) =>
         /\ state[p] = replay[p].state
         /\ \A i \in 1..Len(replay[p].lines) :
              LET l == replay[p].lines[i]
                  cutoff == CutoffOf(p, SeriesOfLine(l))
              IN (cutoff = None \/ LineMs(l) > cutoff[1]) <=> l \in Range(lines[p])
         /\ bootstrapSinceMs[p] = None =>
              /\ newRaw[p] = replay[p].slices
              /\ lines[p] = replay[p].lines
              /\ calls[p].push = 1

\* After a put failure the record is still missing, and the next run has
\* pushed the failed run's batch of two lines again and the sink accepted
\* it.
C16_Witness ==
  \E p \in Procs :
    /\ RetryAfterPutFailure(p)
    /\ ~store.exists
    /\ Len(replay[p].lines) = 2
    /\ lines[p] = replay[p].lines
    /\ calls[p].pushOk = 1

\* What a run has done so far is in the order of its code: one STATE.get,
\* no fetch before it resolved, and STATE.put issued at most once and only
\* after the three fetches resolved and the sink accepted the batch.
CallsInOrder ==
  \A p \in Procs :
    /\ pc[p] # "idle" => calls[p].get = 1
    /\ pc[p] = "loading" => calls[p].fetch = 0
    /\ calls[p].fetch \in {0, 3}
    /\ calls[p].put \in {0, 1}
    /\ calls[p].put = 1 =>
         /\ calls[p].fetch = 3 /\ AllFetched(p)
         /\ lines[p] # <<>>
         /\ calls[p].push = 1 /\ calls[p].pushOk = 1
    /\ pc[p] \in {"loading", "fetching", "pushing"} => calls[p].put = 0

\* A step that changes the record is the end of a run that was waiting for
\* its STATE.put: it writes that run's proposedState and the run returns.
WriteEndsRun ==
  store' # store =>
    \E p \in Procs :
      /\ pc[p] = "putting" /\ calls[p].put = 1
      /\ pc'[p] = "done"
      /\ store' = [exists |-> TRUE, wm |-> proposedState[p]]
      /\ calls'[p] = calls[p]
      /\ delivered' = delivered

\* C17: every run calls STATE.get once, before any fetch is issued, and
\* STATE.put at most once, after fetch, slice, encode and push; the record
\* changes only by that put, with which the run ends.
C17_ReadOnceWriteLast == []CallsInOrder /\ [][WriteEndsRun]_vars

\* A run that committed while another invocation was still waiting for its
\* STATE.get.
C17_Witness ==
  \E p, q \in Procs :
    /\ result[p].committed
    /\ calls[p] = [get |-> 1, fetch |-> 3, push |-> 1, pushOk |-> 1, put |-> 1]
    /\ pc[q] = "loading"

\* STATE.put of run p was issued and resolved.
PutCompleted(p) == calls[p].put = 1 /\ pc[p] = "done"

\* C18: a run that returns reports committed exactly when its STATE.put
\* completed; then pushed is the number of lines of its batch, which the sink
\* accepted, and state is the proposedState it wrote; otherwise the sink was
\* not contacted, pushed is 0 and state is the loaded watermarks. A run
\* whose put completed returns.
C18_ResultMatchesEffects ==
  \A p \in Procs :
    /\ result[p].status = "ok" =>
         /\ pc[p] = "done"
         /\ result[p].committed <=> PutCompleted(p)
         /\ result[p].pushed = (IF calls[p].pushOk = 1 THEN Len(lines[p]) ELSE 0)
         /\ IF result[p].committed
            THEN /\ result[p].state = proposedState[p]
                 /\ result[p].pushed > 0
                 /\ Range(lines[p]) \subseteq delivered
            ELSE /\ result[p].state = last[p]
                 /\ calls[p].push = 0
                 /\ calls[p].put = 0
    /\ PutCompleted(p) => result[p].status = "ok"

\* One run has returned a commit of one line, and another one, which loaded
\* the record that run wrote, has returned a no-op with those watermarks.
C18_Witness ==
  \E p, q \in Procs :
    /\ result[p] = Returned(1, TRUE, proposedState[p])
    /\ store.wm = proposedState[p]
    /\ result[q] = Returned(0, FALSE, store.wm)
    /\ calls[q].fetch = 3

\* --------------------------------------------------------- claims about tsNs
\* C19: the timestamp of a line is the millisecond timestamp times
\* 1,000,000 exactly: it is a multiple of 1,000,000 whose quotient is the
\* millisecond timestamp, and 1700000000000 gives 1700000000000000000.
C19_ExactNanoseconds ==
  nsOut # <<>> =>
    LET ns == nsOut[1]
    IN /\ ns.lo \in 0..(1000 * NsPerMs - 1)
       /\ ns.lo % NsPerMs = 0
       /\ [sec |-> ns.hi, ms |-> ns.lo \div NsPerMs] = nsIn
       /\ nsIn = [sec |-> 1700000000, ms |-> 0] => ns = [hi |-> 1700000000, lo |-> 0]

\* 1700000000123 ms gives 1700000000123000000 ns, which no double holds.
C19_Witness ==
  /\ nsIn = [sec |-> 1700000000, ms |-> 123]
  /\ nsOut = <<[hi |-> 1700000000, lo |-> 123000000]>>

====
